---- MODULE Spec2Model ----
(***************************************************************************)
(* Model of streamlit_app.py: the PII detector/redactor (PIIDetector), the *)
(* three anomaly detectors (AnomalyDetector) and the pipeline analyze_data.*)
(*                                                                         *)
(* A DataFrame is a function from column name to a sequence of cells.  A   *)
(* cell is missing (NaN), a number (an integer amount) or a text, and a    *)
(* text is a sequence of one-character strings, so that the regular        *)
(* expressions of PIIDetector are evaluated character by character.        *)
(*                                                                         *)
(* Amounts are integers, so quartiles, bounds and the median are exact     *)
(* when scaled by 4 and 8 (as they are in binary floating point).  A text  *)
(* written by df.loc into a column of numbers turns the column into one of *)
(* objects and leaves the other cells as they are.  The row index is the   *)
(* RangeIndex of read_csv: one label per row.                              *)
(***************************************************************************)
EXTENDS Integers, Sequences, FiniteSets, TLC

(***************************************************************************)
(* Bounds of the model.                                                    *)
(***************************************************************************)
MaxRows == 2
MaxAmountRows == 5
MaxTokens == 2

(***************************************************************************)
(* Characters and the character classes of the regular expressions.        *)
(***************************************************************************)
Digit == {"0", "1", "2", "3", "4", "5", "6", "7", "8", "9"}

Upper ==
  {"A", "B", "C", "D", "E", "F", "G", "H", "I", "J", "K", "L", "M",
   "N", "O", "P", "Q", "R", "S", "T", "U", "V", "W", "X", "Y", "Z"}

Lower ==
  {"a", "b", "c", "d", "e", "f", "g", "h", "i", "j", "k", "l", "m",
   "n", "o", "p", "q", "r", "s", "t", "u", "v", "w", "x", "y", "z"}

\* \w of Python's re, restricted to ASCII
WordChar == Digit \cup Upper \cup Lower \cup {"_"}

\* [-.\s] of the phone pattern; the space stands for the whitespace class
PhoneSep == {"-", ".", " "}

\* [A-Za-z0-9._%+-]
EmailLocal == Upper \cup Lower \cup Digit \cup {".", "_", "%", "+", "-"}

\* [A-Za-z0-9.-]
EmailDomain == Upper \cup Lower \cup Digit \cup {".", "-"}

\* [A-Z|a-z]: the bar is a member of the class
EmailTld == Upper \cup Lower \cup {"|"}

\* the 8 of \d{8,}
MinAccountDigits == 8

\* the 2 of [A-Z|a-z]{2,}
MinTldLen == 2

SetMax(S) == CHOOSE x \in S : \A y \in S : y <= x

(***************************************************************************)
(* Matching primitives.  Positions are 1-based; a match that starts at i   *)
(* and ends before e is reported as e, and 0 means no match at i.          *)
(***************************************************************************)
At(s, i, C) == i >= 1 /\ i <= Len(s) /\ s[i] \in C

\* \b between s[i-1] and s[i]
IsBoundary(s, i) == At(s, i - 1, WordChar) # At(s, i, WordChar)

\* \d{k} at i
Digits(s, i, k) == \A j \in i..(i + k - 1) : At(s, j, Digit)

\* an optional single character of class C at i, taken when present
Opt(s, i, C) == IF At(s, i, C) THEN 1 ELSE 0

\* length of the longest run of characters of class C that starts at i
RECURSIVE Run(_, _, _)
Run(s, i, C) == IF At(s, i, C) THEN 1 + Run(s, i + 1, C) ELSE 0

\* \b\d{3}-?\d{2}-?\d{4}\b
SsnEnd(s, i) ==
  IF ~IsBoundary(s, i) \/ ~Digits(s, i, 3) THEN 0
  ELSE LET j == i + 3 + Opt(s, i + 3, {"-"})
       IN  IF ~Digits(s, j, 2) THEN 0
           ELSE LET k == j + 2 + Opt(s, j + 2, {"-"})
                IN  IF Digits(s, k, 4) /\ IsBoundary(s, k + 4)
                    THEN k + 4 ELSE 0

\* \d{3}[-.\s]?\d{4}\b
PhoneTail(s, i) ==
  IF ~Digits(s, i, 3) THEN 0
  ELSE LET j == i + 3 + Opt(s, i + 3, PhoneSep)
       IN  IF Digits(s, j, 4) /\ IsBoundary(s, j + 4) THEN j + 4 ELSE 0

\* \b(?:\(?\d{3}\)?[-.\s]?)?\d{3}[-.\s]?\d{4}\b : the area-code group is
\* tried first and dropped when the rest does not match after it
PhoneEnd(s, i) ==
  IF ~IsBoundary(s, i) THEN 0
  ELSE LET a == i + Opt(s, i, {"("})
           b == a + 3 + Opt(s, a + 3, {")"})
           c == b + Opt(s, b, PhoneSep)
           withArea == IF Digits(s, a, 3) THEN PhoneTail(s, c) ELSE 0
       IN  IF withArea > 0 THEN withArea ELSE PhoneTail(s, i)

\* \b[A-Za-z0-9._%+-]+@[A-Za-z0-9.-]+\.[A-Z|a-z]{2,}\b : the domain and the
\* top-level part are greedy and give characters back, longest first
EmailEnd(s, i) ==
  IF ~IsBoundary(s, i) THEN 0
  ELSE LET l == Run(s, i, EmailLocal)
       IN  IF l = 0 \/ ~At(s, i + l, {"@"}) THEN 0
           ELSE LET d0 == i + l + 1
                    Tlds(d) == {t \in MinTldLen..Run(s, d0 + d + 1, EmailTld) :
                                  IsBoundary(s, d0 + d + 1 + t)}
                    Doms == {d \in 1..Run(s, d0, EmailDomain) :
                               At(s, d0 + d, {"."}) /\ Tlds(d) # {}}
                IN  IF Doms = {} THEN 0
                    ELSE LET d == SetMax(Doms)
                         IN  d0 + d + 1 + SetMax(Tlds(d))

\* \b\d{8,}\b
AccountEnd(s, i) ==
  IF ~IsBoundary(s, i) THEN 0
  ELSE LET n == Run(s, i, Digit)
       IN  IF n >= MinAccountDigits /\ IsBoundary(s, i + n) THEN i + n ELSE 0

MatchEnd(kind, s, i) ==
  CASE kind = "ssn" -> SsnEnd(s, i)
    [] kind = "phone" -> PhoneEnd(s, i)
    [] kind = "email" -> EmailEnd(s, i)
    [] kind = "account" -> AccountEnd(s, i)
    [] OTHER -> 0

\* re.search(pattern, text)
Search(kind, s) == \E i \in 1..Len(s) : MatchEnd(kind, s, i) > 0

SsnMask == <<"X", "X", "X", "-", "X", "X", "-", "X", "X", "X", "X">>
PhoneMask == <<"X", "X", "X", "-", "X", "X", "X", "-", "X", "X", "X", "X">>
EmailMask ==
  <<"R", "E", "D", "A", "C", "T", "E", "D", "@",
    "E", "M", "A", "I", "L", ".", "C", "O", "M">>

\* the replacement of a match of n characters
Mask(kind, n) ==
  CASE kind = "ssn" -> SsnMask
    [] kind = "phone" -> PhoneMask
    [] kind = "email" -> EmailMask
    [] OTHER -> [k \in 1..n |-> "X"]

\* re.sub(pattern, repl, text): leftmost matches, left to right, the scan
\* resuming after each replaced match
RECURSIVE SubFrom(_, _, _)
SubFrom(kind, s, pos) ==
  IF pos > Len(s) THEN <<>>
  ELSE LET e == MatchEnd(kind, s, pos)
       IN  IF e > 0 THEN Mask(kind, e - pos) \o SubFrom(kind, s, e)
           ELSE <<s[pos]>> \o SubFrom(kind, s, pos + 1)

Sub(kind, s) == SubFrom(kind, s, 1)

(***************************************************************************)
(* Cells.                                                                  *)
(***************************************************************************)
Missing == [tag |-> "nan", n |-> 0, s |-> <<>>]
Num(n) == [tag |-> "num", n |-> n, s |-> <<>>]
Txt(s) == [tag |-> "txt", n |-> 0, s |-> s]

DigitChar(d) == <<"0", "1", "2", "3", "4", "5", "6", "7", "8", "9">>[d + 1]

RECURSIVE NatToStr(_)
NatToStr(n) ==
  IF n < 10 THEN <<DigitChar(n)>>
  ELSE NatToStr(n \div 10) \o <<DigitChar(n % 10)>>

\* pd.isna(value)
IsNa(cell) == cell.tag = "nan"

\* str(value) of a text or of an integer
Str(cell) ==
  IF cell.tag = "txt" THEN cell.s
  ELSE IF cell.n < 0 THEN <<"-">> \o NatToStr(0 - cell.n)
  ELSE NatToStr(cell.n)

detect_ssn(cell) == IF IsNa(cell) THEN FALSE ELSE Search("ssn", Str(cell))
detect_phone(cell) == IF IsNa(cell) THEN FALSE ELSE Search("phone", Str(cell))
detect_email(cell) == IF IsNa(cell) THEN FALSE ELSE Search("email", Str(cell))
detect_account_number(cell) ==
  IF IsNa(cell) THEN FALSE ELSE Search("account", Str(cell))

redact_pii(cell, pii_type) ==
  IF IsNa(cell) THEN cell
  ELSE IF pii_type \in {"ssn", "phone", "email", "account"}
       THEN Txt(Sub(pii_type, Str(cell)))
       ELSE Txt(Str(cell))

(***************************************************************************)
(* Numbers of the amount column.                                           *)
(***************************************************************************)
NaN == [ok |-> FALSE, n |-> 0]

\* an integer literal: an optional sign and one or more digits
IsIntLiteral(s) ==
  LET k == Opt(s, 1, {"-", "+"})
  IN  Len(s) > k /\ \A i \in (k + 1)..Len(s) : s[i] \in Digit

DigitVal(c) == CHOOSE d \in 0..9 : DigitChar(d) = c

RECURSIVE ParseNat(_, _)
ParseNat(s, n) ==
  IF n = 0 THEN 0 ELSE 10 * ParseNat(s, n - 1) + DigitVal(s[n])

ParseInt(s) ==
  LET k == Opt(s, 1, {"-", "+"})
      m == ParseNat(SubSeq(s, k + 1, Len(s)), Len(s) - k)
  IN  IF k = 1 /\ s[1] = "-" THEN 0 - m ELSE m

\* pd.to_numeric(value, errors='coerce') of one cell
ToNumeric(cell) ==
  CASE cell.tag = "num" -> [ok |-> TRUE, n |-> cell.n]
    [] cell.tag = "txt" /\ IsIntLiteral(cell.s) ->
         [ok |-> TRUE, n |-> ParseInt(cell.s)]
    [] OTHER -> NaN

\* pd.to_numeric(df['amount'], errors='coerce').dropna(), in row order
RECURSIVE NumericAmounts(_)
NumericAmounts(column) ==
  IF column = <<>> THEN <<>>
  ELSE LET v == ToNumeric(Head(column))
       IN  (IF v.ok THEN <<v.n>> ELSE <<>>) \o NumericAmounts(Tail(column))

Abs(x) == IF x < 0 THEN 0 - x ELSE x

RECURSIVE SeqSum(_)
SeqSum(s) == IF s = <<>> THEN 0 ELSE Head(s) + SeqSum(Tail(s))

Sorted(s) == SortSeq(s, LAMBDA a, b : a < b)

\* 4 * Series.quantile(k / 4) with linear interpolation
Quantile4(s, k) ==
  LET v == Sorted(s)
      h == (Len(s) - 1) * k
      j == h \div 4
      lo == v[j + 1]
      hi == v[IF j + 2 <= Len(s) THEN j + 2 ELSE Len(s)]
  IN  4 * lo + (h % 4) * (hi - lo)

\* 8 * lower_bound and 8 * upper_bound
LowerBound8(s) ==
  LET Q1 == Quantile4(s, 1)
      Q3 == Quantile4(s, 3)
      IQR == Q3 - Q1
  IN  2 * Q1 - 3 * IQR

UpperBound8(s) ==
  LET Q1 == Quantile4(s, 1)
      Q3 == Quantile4(s, 3)
      IQR == Q3 - Q1
  IN  2 * Q3 + 3 * IQR

\* 4 * Series.median()
Median4(s) == Quantile4(s, 2)

(***************************************************************************)
(* Order of the group keys of groupby (sort=True): numbers before texts,   *)
(* numbers by value, texts by code point.                                  *)
(***************************************************************************)
Ascii ==
  <<" ", "%", "(", ")", "+", "-", ".",
    "0", "1", "2", "3", "4", "5", "6", "7", "8", "9", "@",
    "A", "B", "C", "D", "E", "F", "G", "H", "I", "J", "K", "L", "M",
    "N", "O", "P", "Q", "R", "S", "T", "U", "V", "W", "X", "Y", "Z", "_",
    "a", "b", "c", "d", "e", "f", "g", "h", "i", "j", "k", "l", "m",
    "n", "o", "p", "q", "r", "s", "t", "u", "v", "w", "x", "y", "z", "|">>

Code(c) == CHOOSE i \in 1..Len(Ascii) : Ascii[i] = c

RECURSIVE TextLess(_, _)
TextLess(a, b) ==
  IF b = <<>> THEN FALSE
  ELSE IF a = <<>> THEN TRUE
  ELSE IF Head(a) # Head(b) THEN Code(Head(a)) < Code(Head(b))
  ELSE TextLess(Tail(a), Tail(b))

CellLess(a, b) ==
  IF a.tag = "num" /\ b.tag = "num" THEN a.n < b.n
  ELSE IF a.tag = "txt" /\ b.tag = "txt" THEN TextLess(a.s, b.s)
  ELSE a.tag = "num" /\ b.tag = "txt"

\* keys are pairs <<vendor, amount>>
KeyLess(a, b) ==
  CellLess(a[1], b[1]) \/ (a[1] = b[1] /\ CellLess(a[2], b[2]))

RECURSIVE SortedKeys(_)
SortedKeys(K) ==
  IF K = {} THEN <<>>
  ELSE LET m == CHOOSE k \in K : \A o \in K \ {k} : KeyLess(k, o)
       IN  <<m>> \o SortedKeys(K \ {m})

(***************************************************************************)
(* AnomalyDetector.  A DataFrame is given by its column names and its      *)
(* cells; an anomaly keeps the values its description is formatted from.   *)
(***************************************************************************)
HasColumn(columns, name) == \E i \in 1..Len(columns) : columns[i] = name

\* len(df)
NRows(columns, data) == IF columns = <<>> THEN 0 ELSE Len(data[columns[1]])

\* groupby(['vendor', 'amount']).size(): rows with a missing key are dropped
GroupSize(data, key) ==
  Cardinality({r \in 1..Len(data["vendor"]) :
                 <<data["vendor"][r], data["amount"][r]>> = key})

DuplicateGroups(data) ==
  LET Keys == {<<data["vendor"][r], data["amount"][r]>> :
                 r \in {q \in 1..Len(data["vendor"]) :
                          ~IsNa(data["vendor"][q]) /\ ~IsNa(data["amount"][q])}}
  IN  {k \in Keys : GroupSize(data, k) > 1}

\* the format ',.2f' of the description raises ValueError for a text
FormatRaises(amount) == amount.tag = "txt"

RECURSIVE DuplicateAnomalies(_, _)
DuplicateAnomalies(data, keys) ==
  IF keys = <<>> THEN <<>>
  ELSE <<[type |-> "Duplicate Payment",
          description |-> <<Head(keys)[2], Head(keys)[1],
                            GroupSize(data, Head(keys))>>,
          severity |-> "Medium",
          records_affected |-> GroupSize(data, Head(keys))]>>
       \o DuplicateAnomalies(data, Tail(keys))

detect_duplicate_payments(columns, data) ==
  IF HasColumn(columns, "amount") /\ HasColumn(columns, "vendor")
  THEN LET duplicates == DuplicateGroups(data)
       IN  IF \E k \in duplicates : FormatRaises(k[2])
           THEN [raised |-> TRUE, anomalies |-> <<>>]
           ELSE [raised |-> FALSE,
                 anomalies |-> DuplicateAnomalies(data, SortedKeys(duplicates))]
  ELSE [raised |-> FALSE, anomalies |-> <<>>]

\* variant: a value equal to a bound is flagged too
IsOutlier_Inclusive(amounts, amount) ==
  8 * amount <= LowerBound8(amounts) \/ 8 * amount >= UpperBound8(amounts)

IsOutlier(amounts, amount) ==
  8 * amount < LowerBound8(amounts) \/ 8 * amount > UpperBound8(amounts)

OutlierSeverity(amounts, amount) ==
  IF 4 * Abs(amount) > Median4(amounts) * 10 THEN "High" ELSE "Medium"

RECURSIVE OutlierAnomalies(_, _)
OutlierAnomalies(amounts, rest) ==
  IF rest = <<>> THEN <<>>
  ELSE (IF IsOutlier(amounts, Head(rest))
        THEN <<[type |-> "Amount Outlier",
                description |-> <<Head(rest)>>,
                severity |-> OutlierSeverity(amounts, Head(rest)),
                records_affected |-> 1]>>
        ELSE <<>>)
       \o OutlierAnomalies(amounts, Tail(rest))

detect_amount_outliers(columns, data) ==
  IF HasColumn(columns, "amount")
  THEN LET amounts == NumericAmounts(data["amount"])
       IN  IF Len(amounts) > 0 THEN OutlierAnomalies(amounts, amounts)
           ELSE <<>>
  ELSE <<>>

\* variant: zero is flagged too
IsNegative_OrZero(amount) == amount <= 0

IsNegative(amount) == amount < 0

RECURSIVE NegativeAnomalies(_)
NegativeAnomalies(rest) ==
  IF rest = <<>> THEN <<>>
  ELSE (IF IsNegative(Head(rest))
        THEN <<[type |-> "Negative Amount",
                description |-> <<Head(rest)>>,
                severity |-> "Medium",
                records_affected |-> 1]>>
        ELSE <<>>)
       \o NegativeAnomalies(Tail(rest))

detect_negative_amounts(columns, data) ==
  IF HasColumn(columns, "amount")
  THEN NegativeAnomalies(NumericAmounts(data["amount"]))
  ELSE <<>>

(***************************************************************************)
(* analyze_data.                                                           *)
(***************************************************************************)
VARIABLES
  cols,           \* df.columns
  orig,           \* the cells of the caller's DataFrame when the call starts
  df,             \* the cells of the caller's DataFrame object
  copy,           \* the cells of the object made by df.copy()
  redacted_data,  \* results['redacted_data']: the object it refers to
  pii_detected,   \* results['pii_detected']
  pii_count,      \* results['pii_count']
  anomalies,      \* results['anomalies']
  summary_stats,  \* results['summary_stats']; the empty function is {}
  taken,          \* per cell, the branch of the if/elif chain that ran
  column,         \* index of the column the PII loop is at
  pc,             \* position in analyze_data
  pii_type,       \* argument of the repeated redact_pii call
  redactions      \* a cell and its successive redactions

vars ==
  <<cols, orig, df, copy, redacted_data, pii_detected, pii_count, anomalies,
    summary_stats, taken, column, pc, pii_type, redactions>>

\* variant: the account-number test comes first
Classify_AccountFirst(cell) ==
  IF detect_account_number(cell) THEN "account"
  ELSE IF detect_ssn(cell) THEN "ssn"
  ELSE IF detect_phone(cell) THEN "phone"
  ELSE IF detect_email(cell) THEN "email"
  ELSE "none"

\* the if/elif chain of the PII loop: the type passed to redact_pii
Classify(cell) ==
  IF detect_ssn(cell) THEN "ssn"
  ELSE IF detect_phone(cell) THEN "phone"
  ELSE IF detect_email(cell) THEN "email"
  ELSE IF detect_account_number(cell) THEN "account"
  ELSE "none"

\* the name appended to column_pii
Label(kind) ==
  CASE kind = "ssn" -> "SSN"
    [] kind = "phone" -> "Phone"
    [] kind = "email" -> "Email"
    [] kind = "account" -> "Account Number"

\* column_pii after the rows of one column
RECURSIVE ColumnPii(_)
ColumnPii(kinds) ==
  IF kinds = <<>> THEN <<>>
  ELSE (IF Head(kinds) = "none" THEN <<>> ELSE <<Label(Head(kinds))>>)
       \o ColumnPii(Tail(kinds))

\* variant: the count grows by the number of distinct categories
CountIncrement_Distinct(column_pii) ==
  Cardinality({column_pii[i] : i \in 1..Len(column_pii)})

\* results['pii_count'] += len(column_pii)
CountIncrement(column_pii) == Len(column_pii)

\* list(set(column_pii))
ColumnKinds(column_pii) == {column_pii[i] : i \in 1..Len(column_pii)}

\* the cell written by df.loc[index, column] = ...
Written(cell, kind) ==
  IF kind = "none" THEN cell ELSE redact_pii(cell, kind)

\* one column of the PII loop
ScanColumn ==
  /\ pc = "scan"
  /\ column <= Len(cols)
  /\ LET name == cols[column]
         cells == df[name]
         kinds == [r \in 1..Len(cells) |-> Classify(cells[r])]
         column_pii == ColumnPii(kinds)
         written == [r \in 1..Len(cells) |-> Written(cells[r], kinds[r])]
     IN  /\ taken' = [taken EXCEPT ![name] = kinds]
         /\ df' = [df EXCEPT ![name] = written]
         /\ IF column_pii # <<>>
            THEN /\ pii_detected' =
                      [c \in DOMAIN pii_detected \cup {name} |->
                         IF c = name
                         THEN ColumnKinds(column_pii)
                         ELSE pii_detected[c]]
                 /\ pii_count' = pii_count + CountIncrement(column_pii)
            ELSE UNCHANGED <<pii_detected, pii_count>>
  /\ column' = column + 1
  /\ UNCHANGED <<cols, orig, copy, redacted_data, anomalies, summary_stats,
                 pc, pii_type, redactions>>

\* results['redacted_data'] = df
AssignRedacted ==
  /\ pc = "scan"
  /\ column > Len(cols)
  /\ redacted_data' = "df"
  /\ pc' = "duplicates"
  /\ UNCHANGED <<cols, orig, df, copy, pii_detected, pii_count, anomalies,
                 summary_stats, taken, column, pii_type, redactions>>

DetectDuplicates ==
  /\ pc = "duplicates"
  /\ LET found == detect_duplicate_payments(cols, df)
     IN  IF found.raised
         THEN pc' = "raised" /\ anomalies' = anomalies
         ELSE pc' = "outliers" /\ anomalies' = anomalies \o found.anomalies
  /\ UNCHANGED <<cols, orig, df, copy, redacted_data, pii_detected, pii_count,
                 summary_stats, taken, column, pii_type, redactions>>

DetectOutliers ==
  /\ pc = "outliers"
  /\ anomalies' = anomalies \o detect_amount_outliers(cols, df)
  /\ pc' = "negatives"
  /\ UNCHANGED <<cols, orig, df, copy, redacted_data, pii_detected, pii_count,
                 summary_stats, taken, column, pii_type, redactions>>

DetectNegatives ==
  /\ pc = "negatives"
  /\ anomalies' = anomalies \o detect_negative_amounts(cols, df)
  /\ pc' = "stats"
  /\ UNCHANGED <<cols, orig, df, copy, redacted_data, pii_detected, pii_count,
                 summary_stats, taken, column, pii_type, redactions>>

\* variant: the count is the size of the parsed population
TotalTransactions_Parsed(columns, data, amounts) == Len(amounts)

\* 'total_transactions': len(df)
TotalTransactions(columns, data, amounts) == NRows(columns, data)

SummaryStats(columns, data) ==
  LET amounts == NumericAmounts(data["amount"])
      sorted == Sorted(amounts)
  IN  [total_transactions |-> TotalTransactions(columns, data, amounts),
       total_amount |-> SeqSum(amounts),
       average_amount |-> [num |-> SeqSum(amounts), den |-> Len(amounts)],
       median_amount |-> [num |-> Median4(amounts), den |-> 4],
       max_amount |-> sorted[Len(sorted)],
       min_amount |-> sorted[1]]

GenerateStats ==
  /\ pc = "stats"
  /\ IF HasColumn(cols, "amount") /\ Len(NumericAmounts(df["amount"])) > 0
     THEN summary_stats' = SummaryStats(cols, df)
     ELSE summary_stats' = summary_stats
  /\ pc' = "done"
  /\ UNCHANGED <<cols, orig, df, copy, redacted_data, pii_detected, pii_count,
                 anomalies, taken, column, pii_type, redactions>>

(***************************************************************************)
(* PIIDetector.redact_pii applied to its own result.                       *)
(***************************************************************************)
Redact ==
  /\ pc = "redact"
  /\ Len(redactions) < 3
  /\ redactions' =
       Append(redactions, redact_pii(redactions[Len(redactions)], pii_type))
  /\ UNCHANGED <<cols, orig, df, copy, redacted_data, pii_detected, pii_count,
                 anomalies, summary_stats, taken, column, pc, pii_type>>

(***************************************************************************)
(* Inputs.  No text of these sets is a decimal literal or a number padded  *)
(* by blanks, so ToNumeric parses exactly the texts pandas parses.         *)
(***************************************************************************)
VendorVals ==
  {Txt(<<"A">>),
   Txt(<<"A", " ", "5", "5", "5", "1", "2", "3", "4">>),
   Missing}

AmountVals ==
  {Num(100), Num(0 - 1234567), Txt(<<"2", "5", "0">>),
   Txt(<<"T", "B", "D">>), Missing}

ContactVals ==
  {Txt(<<"1", "2", "3", "4", "5", "6", "7", "8", "9">>),
   Txt(<<"1", "2", "3", "4", "5", "6", "7", "8", "9", "0">>),
   Txt(<<"1", "2", "3", "4", "5", "6", "7", "8">>),
   Txt(<<"a", "@", "b", ".", "c", "o">>),
   Txt(<<"a", "@", "b", ".", "c", "o", " ",
         "1", "2", "3", "-", "4", "5", "-", "6", "7", "8", "9">>),
   Txt(<<"5", "5", "5", "-", "1", "2", "3", "4", " ",
         "a", "@", "b", ".", "c", "o">>),
   Txt(<<"h", "i">>),
   Txt(<<>>),
   Missing}

SmallAmounts ==
  {Num(0 - 4), Num(0), Num(1), Txt(<<"T", "B", "D">>), Missing}

Tokens ==
  {<<"a", "@", "b", ".", "c", "o">>,
   <<".", "x", "@", "y", ".", "z", "z">>,
   <<"1", "2", "3", "-", "4", "5", "-", "6", "7", "8", "9">>,
   <<"1", "2", "3", "4", "5", "6", "7", "8", "9">>,
   <<"(", "5", "5", "5", ")">>,
   <<"5", "5", "5", "-", "1", "2", "3", "4">>,
   <<"1", "2", "3", "4", "5", "6", "7", "8">>,
   <<"1">>, <<"X">>, <<" ">>, <<"-">>, <<"|">>}

RECURSIVE Texts(_)
Texts(n) ==
  IF n = 0 THEN {<<>>}
  ELSE Texts(n - 1) \cup {t \o k : t \in Texts(n - 1), k \in Tokens}

RedactInputs ==
  {Txt(t) : t \in Texts(MaxTokens)} \cup {Num(1234567), Num(12345678), Missing}

PiiTypes == {"ssn", "phone", "email", "account"}

\* the state of analyze_data after results is built (the copy is made)
Entry(columns, data) ==
  /\ cols = columns
  /\ orig = data
  /\ df = data
  /\ copy = data
  /\ redacted_data = "copy"
  /\ pii_detected = <<>>
  /\ pii_count = 0
  /\ anomalies = <<>>
  /\ summary_stats = <<>>
  /\ taken = [c \in DOMAIN data |-> <<>>]
  /\ column = 1
  /\ pc = "scan"
  /\ pii_type = "none"
  /\ redactions = <<>>

InitPii ==
  \E n \in 0..MaxRows :
    \/ n = 0 /\ Entry(<<>>, <<>>)
    \/ \E c \in [1..n -> ContactVals] :
         Entry(<<"contact">>, [contact |-> c])
    \/ \E v \in [1..n -> VendorVals] :
         Entry(<<"vendor">>, [vendor |-> v])
    \/ \E a \in [1..n -> AmountVals] :
         Entry(<<"amount">>, [amount |-> a])
    \/ \E v \in [1..n -> VendorVals], a \in [1..n -> AmountVals] :
         Entry(<<"vendor", "amount">>, [vendor |-> v, amount |-> a])

\* longer amount columns of small values, all rows of one vendor
InitAmounts ==
  \E n \in 0..MaxAmountRows :
    \E a \in [1..n -> SmallAmounts] :
      Entry(<<"vendor", "amount">>,
            [vendor |-> [r \in 1..n |-> Txt(<<"A">>)], amount |-> a])

Init == InitPii

Next ==
  \/ ScanColumn
  \/ AssignRedacted
  \/ DetectDuplicates
  \/ DetectOutliers
  \/ DetectNegatives
  \/ GenerateStats

Spec == Init /\ [][Next]_vars

SpecAmounts == InitAmounts /\ [][Next]_vars

InitRedact ==
  /\ \E v \in RedactInputs : redactions = <<v>>
  /\ pii_type \in PiiTypes
  /\ cols = <<>>
  /\ orig = <<>>
  /\ df = <<>>
  /\ copy = <<>>
  /\ redacted_data = "copy"
  /\ pii_detected = <<>>
  /\ pii_count = 0
  /\ anomalies = <<>>
  /\ summary_stats = <<>>
  /\ taken = <<>>
  /\ column = 1
  /\ pc = "redact"

NextRedact == Redact

SpecRedact == InitRedact /\ [][NextRedact]_vars

(***************************************************************************)
(* Notions the properties are stated with.                                 *)
(***************************************************************************)
ColumnSet == {cols[i] : i \in 1..Len(cols)}

RowSet == 1..NRows(cols, orig)

Returned == pc = "done"

\* the PII loop has just ended, or analyze_data has returned
LoopDone == pc \in {"duplicates", "done"}

StatsPresent == DOMAIN summary_stats # {}

\* the DataFrame results['redacted_data'] refers to
RedactedData == IF redacted_data = "df" THEN df ELSE copy

Priority == <<"ssn", "phone", "email", "account">>

PatternMatches(kind, cell) == ~IsNa(cell) /\ Search(kind, Str(cell))

\* the first category, in the order of Priority, whose pattern matches
FirstMatch(cell) ==
  LET M == {i \in 1..Len(Priority) : PatternMatches(Priority[i], cell)}
  IN  IF M = {} THEN "none"
      ELSE Priority[CHOOSE i \in M : \A j \in M : i <= j]

OfType(t) == SelectSeq(anomalies, LAMBDA a : a.type = t)

\* the rows of a frame whose amount parses as a number
ParsedRows(data) ==
  IF HasColumn(cols, "amount")
  THEN {r \in 1..Len(data["amount"]) : ToNumeric(data["amount"][r]).ok}
  ELSE {}

AmountAt(data, r) == ToNumeric(data["amount"][r]).n

\* the k-th smallest amount of the parsed rows R, by rank
OrderStat(data, R, k) ==
  CHOOSE v \in {AmountAt(data, r) : r \in R} :
    /\ Cardinality({r \in R : AmountAt(data, r) < v}) < k
    /\ k <= Cardinality({r \in R : AmountAt(data, r) <= v})

\* 4 times the quantile p/4 of the parsed rows R, interpolated linearly
\* between the two order statistics around position (n - 1) * p / 4
Quartile4(data, R, p) ==
  LET n == Cardinality(R)
      h == (n - 1) * p
      j == h \div 4
      w == h % 4
  IN  (4 - w) * OrderStat(data, R, j + 1)
      + w * OrderStat(data, R, IF j + 2 <= n THEN j + 2 ELSE n)

\* 8 * (Q1 - 1.5 * IQR) and 8 * (Q3 + 1.5 * IQR)
Lower8(data, R) == 5 * Quartile4(data, R, 1) - 3 * Quartile4(data, R, 3)
Upper8(data, R) == 5 * Quartile4(data, R, 3) - 3 * Quartile4(data, R, 1)

Outside(data, R, r) ==
  8 * AmountAt(data, r) < Lower8(data, R) \/ 8 * AmountAt(data, r) > Upper8(data, R)

\* the rows of R in increasing order
RECURSIVE RowSeq(_)
RowSeq(R) ==
  IF R = {} THEN <<>>
  ELSE LET m == CHOOSE r \in R : \A q \in R : r <= q
       IN  <<m>> \o RowSeq(R \ {m})

TypeRank(t) ==
  CASE t = "Duplicate Payment" -> 1
    [] t = "Amount Outlier" -> 2
    [] t = "Negative Amount" -> 3

\* the cells of a column that some pattern matches
ClassifiedCells(c) == {r \in RowSet : FirstMatch(orig[c][r]) # "none"}

\* the categories found in a column
ColumnCategories(c) ==
  {Label(FirstMatch(orig[c][r])) : r \in ClassifiedCells(c)}

\* number of classified cells of the first i columns
RECURSIVE ClassifiedUpTo(_)
ClassifiedUpTo(i) ==
  IF i = 0 THEN 0
  ELSE Cardinality(ClassifiedCells(cols[i])) + ClassifiedUpTo(i - 1)

\* sum of the sizes of the category sets reported for the first i columns
RECURSIVE ReportedUpTo(_)
ReportedUpTo(i) ==
  IF i = 0 THEN 0
  ELSE (IF cols[i] \in DOMAIN pii_detected
        THEN Cardinality(pii_detected[cols[i]]) ELSE 0)
       + ReportedUpTo(i - 1)

(***************************************************************************)
(* Properties.                                                             *)
(***************************************************************************)

\* C1: after analyze_data returns, the DataFrame object the caller passed
\* holds the cell values it held before the call.
C1_InputUntouched == Returned => df = orig

\* C2: the anomaly list analyze_data returns is the result of the three
\* detectors run on the original, pre-redaction cell values.
C2_AnomaliesOfOriginal ==
  Returned =>
    anomalies = detect_duplicate_payments(cols, orig).anomalies
                \o detect_amount_outliers(cols, orig)
                \o detect_negative_amounts(cols, orig)

\* C3 as stated: whenever the statistics are produced, total_transactions
\* is the number of rows whose amount parses as a number.
C3_CountIsParsedRows ==
  StatsPresent =>
    summary_stats.total_transactions = Cardinality(ParsedRows(orig))

\* C3 as amended: whenever the statistics are produced, total_transactions
\* is the number of rows of the dataset, the rows with a missing or
\* unparseable amount included.
C3_CountIsAllRows ==
  StatsPresent => summary_stats.total_transactions = Cardinality(RowSet)

C3_Witness ==
  /\ Returned
  /\ StatsPresent
  /\ Cardinality(ParsedRows(orig)) < Cardinality(RowSet)

\* C4: the category recorded for a cell, and used to redact it, is the
\* first of SSN, Phone, Email, AccountNumber whose pattern matches; a
\* missing or empty cell, or one no pattern matches, is classified as none
\* and is unchanged in the redacted dataset.
C4_FirstMatchPriority ==
  LoopDone =>
    \A c \in ColumnSet : \A r \in RowSet :
      LET v == orig[c][r]
          k == FirstMatch(v)
      IN  /\ taken[c][r] = k
          /\ PatternMatches("ssn", v) => k = "ssn"
          /\ (IsNa(v) \/ Str(v) = <<>>) => k = "none"
          /\ k = "none" => RedactedData[c][r] = v
          /\ k # "none" =>
               /\ RedactedData[c][r] = Txt(Sub(k, Str(v)))
               /\ c \in DOMAIN pii_detected
               /\ Label(k) \in pii_detected[c]

C4_Witness ==
  /\ Returned
  /\ \E c \in ColumnSet : \E r \in RowSet :
       /\ taken[c][r] = "ssn"
       /\ PatternMatches("account", orig[c][r])
  /\ \E c \in ColumnSet : \E r \in RowSet :
       /\ taken[c][r] = "phone"
       /\ PatternMatches("email", orig[c][r])

\* C5: redacting an already redacted value again, with the same category,
\* gives the same value.
C5_RedactIdempotent ==
  (pc = "redact" /\ Len(redactions) = 3) => redactions[3] = redactions[2]

\* C6: the report maps a column to the set of exactly the categories given
\* to at least one of its cells, a column without a classified cell has no
\* entry, the redaction count is the number of classified cells, and the
\* sizes of the category sets sum to at most the redaction count.
C6_ReportAndCount ==
  LoopDone =>
    /\ DOMAIN pii_detected = {c \in ColumnSet : ClassifiedCells(c) # {}}
    /\ \A c \in DOMAIN pii_detected : pii_detected[c] = ColumnCategories(c)
    /\ pii_count = ClassifiedUpTo(Len(cols))
    /\ ReportedUpTo(Len(cols)) <= pii_count

C6_Witness ==
  /\ Returned
  /\ Cardinality(DOMAIN pii_detected) = 2
  /\ ReportedUpTo(Len(cols)) < pii_count

\* C7: with a vendor and an amount column, the duplicate-payment detector
\* yields exactly one anomaly for each (vendor, amount) pair that more than
\* one row has, with severity Medium and recordsAffected the number of rows
\* of the pair, rows being grouped by exact equality of both cells.
C7_OneAnomalyPerDuplicatePair ==
  (/\ HasColumn(cols, "vendor")
   /\ HasColumn(cols, "amount")
   /\ pc \in {"outliers", "negatives", "stats", "done", "raised"}) =>
    LET present == {r \in RowSet :
                      ~IsNa(df["vendor"][r]) /\ ~IsNa(df["amount"][r])}
        pair(r) == <<df["vendor"][r], df["amount"][r]>>
        count(k) == Cardinality({r \in present : pair(r) = k})
        shared == {k \in {pair(r) : r \in present} : count(k) > 1}
        found == OfType("Duplicate Payment")
    IN  /\ pc # "raised"
        /\ Len(found) = Cardinality(shared)
        /\ \A k \in shared : \E i \in 1..Len(found) :
             /\ found[i].description[1] = k[2]
             /\ found[i].description[2] = k[1]
             /\ found[i].records_affected = count(k)
             /\ found[i].severity = "Medium"

\* C8: for a dataset of zero rows, and for one without the amount or the
\* vendor column, analyze_data raises no error; with zero rows the report
\* is empty, the redaction count 0, the anomaly list empty and the
\* statistics absent; without amount there is no outlier, no negative
\* finding and no statistics, without vendor or amount no duplicate
\* finding; the statistics are present exactly when at least one row has
\* an amount that parses as a number.
C8_EmptyAndMissingColumns ==
  /\ (RowSet = {} \/ ~HasColumn(cols, "amount") \/ ~HasColumn(cols, "vendor"))
       => pc # "raised"
  /\ (Returned /\ RowSet = {}) =>
       /\ DOMAIN pii_detected = {}
       /\ pii_count = 0
       /\ anomalies = <<>>
       /\ ~StatsPresent
  /\ (Returned /\ ~HasColumn(cols, "amount")) =>
       /\ OfType("Amount Outlier") = <<>>
       /\ OfType("Negative Amount") = <<>>
       /\ ~StatsPresent
  /\ (Returned /\ (~HasColumn(cols, "amount") \/ ~HasColumn(cols, "vendor")))
       => OfType("Duplicate Payment") = <<>>
  /\ Returned => (StatsPresent <=> ParsedRows(orig) # {})

\* C9: over the amounts that parse as numbers, the outlier detector yields
\* one anomaly with recordsAffected 1 for every occurrence of a value
\* strictly below Q1 - 1.5 IQR or strictly above Q3 + 1.5 IQR and none for
\* a value inside or equal to a bound; lower <= median <= upper; the
\* severity is High when the absolute value exceeds 10 times the median
\* and Medium otherwise.
C9_OutliersStrictlyOutside ==
  Returned =>
    LET R == ParsedRows(df)
        rows == RowSeq({r \in R : Outside(df, R, r)})
        found == OfType("Amount Outlier")
    IN  /\ Len(found) = Len(rows)
        /\ \A i \in 1..Len(found) :
             LET a == AmountAt(df, rows[i])
             IN  /\ found[i].description = <<a>>
                 /\ found[i].records_affected = 1
                 /\ found[i].severity =
                      IF 4 * Abs(a) > 10 * Quartile4(df, R, 2)
                      THEN "High" ELSE "Medium"
        /\ R # {} =>
             /\ Lower8(df, R) <= 2 * Quartile4(df, R, 2)
             /\ 2 * Quartile4(df, R, 2) <= Upper8(df, R)

C9_Witness ==
  /\ Returned
  /\ OfType("Amount Outlier") # <<>>
  /\ \E r \in ParsedRows(df) :
       /\ ~Outside(df, ParsedRows(df), r)
       /\ \/ 8 * AmountAt(df, r) = Upper8(df, ParsedRows(df))
          \/ 8 * AmountAt(df, r) = Lower8(df, ParsedRows(df))

\* C10: the negative-amount detector yields exactly one anomaly, of
\* severity Medium and recordsAffected 1, for every row whose amount parses
\* as a number below zero and none for any other row; a negative outlier
\* is reported by both detectors; the outlier findings come after all
\* duplicate findings and before all negative-amount findings.
C10_NegativesIndependentAndLast ==
  Returned =>
    LET R == ParsedRows(df)
        rows == RowSeq({r \in R : AmountAt(df, r) < 0})
        found == OfType("Negative Amount")
    IN  /\ Len(found) = Len(rows)
        /\ \A i \in 1..Len(found) :
             found[i] = [type |-> "Negative Amount",
                         description |-> <<AmountAt(df, rows[i])>>,
                         severity |-> "Medium",
                         records_affected |-> 1]
        /\ \A r \in R :
             (AmountAt(df, r) < 0 /\ Outside(df, R, r)) =>
               \E i, j \in 1..Len(anomalies) :
                 /\ anomalies[i].type = "Amount Outlier"
                 /\ anomalies[j].type = "Negative Amount"
                 /\ anomalies[i].description = <<AmountAt(df, r)>>
                 /\ anomalies[j].description = <<AmountAt(df, r)>>
        /\ \A i, j \in 1..Len(anomalies) :
             i < j => TypeRank(anomalies[i].type) <= TypeRank(anomalies[j].type)

C10_Witness ==
  /\ Returned
  /\ \E i, j, k \in 1..Len(anomalies) :
       /\ i < j /\ j < k
       /\ anomalies[i].type = "Duplicate Payment"
       /\ anomalies[j].type = "Amount Outlier"
       /\ anomalies[k].type = "Negative Amount"
       /\ anomalies[j].description = anomalies[k].description

====
